---- MODULE Spec2Model ----
(***************************************************************************)
(* A model of the trading-base message schema: the Amount algebra          *)
(* (Amount::merge), the validating PositionIntentBuilder, the fluent       *)
(* TradeIntent constructor, the TradeMessage envelope and the serde wire   *)
(* encoding of the three message types.                                    *)
(*                                                                         *)
(* Decimal, DateTime<Utc> and Uuid are library types.  A Decimal is a      *)
(* fixed-width value (96-bit mantissa); its `+` panics with "Addition      *)
(* overflowed" when the sum is not representable.  TLC's integers cannot   *)
(* hold 96 bits, so the width is scaled down: a Decimal is an integer in   *)
(* -DecimalMax..DecimalMax and a sum outside that range overflows.  The     *)
(* scale of a Decimal is not modelled.  Uuid::new_v4() and Utc::now() are  *)
(* nondeterministic choices from Uuids and Times.                          *)
(***************************************************************************)
EXTENDS Integers, Sequences, FiniteSets, TLC

VARIABLES
    args,      \* the three Amounts handed to merge: [a, b, c]
    out,       \* the result of each merge call made so far
    builder,   \* the PositionIntentBuilder being chained, or None
    built,     \* what build() returned: Ok(PositionIntent), Err(..) or Pending
    trade,     \* the TradeIntent under construction, or None
    last,      \* the arguments of TradeIntent::new and the last value given to each override
    message,   \* the TradeMessage wrapped around the trade intent, or None
    wire,      \* the JSON encoding produced by serde_json::to_string, or None
    decoded    \* what serde_json::from_str made of `wire`, or None

vars == <<args, out, builder, built, trade, last, message, wire, decoded>>

----------------------------------------------------------------------------
(* Bounds of the model *)

DecimalMax == 2
MaxPrice == 1
MaxTime == 1
MaxUuid == 2
MaxQty == 1
MaxOrderPrice == 2

Decimals == (0 - DecimalMax)..DecimalMax
Prices == 1..MaxPrice
Times == 0..MaxTime
Uuids == 1..MaxUuid
Qtys == (0 - MaxQty)..MaxQty
Strategies == {"A"}
SubStrategies == {"B"}
Tickers == {"AAPL"}
OrderPrices == 1..MaxOrderPrice

----------------------------------------------------------------------------
(* Option<T> and Result<T, Error> *)

None == [tag |-> "None"]
Pending == [tag |-> "Pending"]
Ok(v) == [tag |-> "Ok", val |-> v]
Err(e) == [tag |-> "Err", err |-> e]
Panic(m) == [tag |-> "Panic", msg |-> m]

IsOk(r) == r.tag = "Ok"
IsErr(r) == r.tag = "Err"
IsPanic(r) == r.tag = "Panic"
IsDone(r) == r.tag # "Pending"

(* crate::Error *)
IncompatibleAmountError(l, r) == [kind |-> "IncompatibleAmountError", left |-> l, right |-> r]
InvalidBeforeAfter(b, a) == [kind |-> "InvalidBeforeAfter", before |-> b, after |-> a]
InvalidCombination == [kind |-> "InvalidCombination"]

----------------------------------------------------------------------------
(* Amount *)

Dollars(x) == [tag |-> "Dollars", val |-> x]
Shares(x) == [tag |-> "Shares", val |-> x]
Zero == [tag |-> "Zero"]

Amounts == {Dollars(x) : x \in Decimals} \cup {Shares(x) : x \in Decimals} \cup {Zero}

(* Decimal's `+`: the sum, unless it does not fit the Decimal's width. *)
AddOverflows(x, y) == x + y > DecimalMax \/ x + y < 0 - DecimalMax

(* Faulty variants of merge: each is a slip the match arms could contain. *)
merge_SumsAcrossUnits(self, other) ==
    IF self.tag = "Zero" THEN Ok(other)
    ELSE IF other.tag = "Zero" THEN Ok(self)
    ELSE IF AddOverflows(self.val, other.val) THEN Panic("Addition overflowed")
    ELSE Ok([tag |-> self.tag, val |-> self.val + other.val])

merge_ZeroAbsorbs(self, other) ==
    IF self.tag = "Dollars" /\ other.tag = "Dollars" THEN
        IF AddOverflows(self.val, other.val) THEN Panic("Addition overflowed")
        ELSE Ok(Dollars(self.val + other.val))
    ELSE IF self.tag = "Shares" /\ other.tag = "Shares" THEN
        IF AddOverflows(self.val, other.val) THEN Panic("Addition overflowed")
        ELSE Ok(Shares(self.val + other.val))
    ELSE IF self.tag = "Zero" /\ other.tag = "Zero" THEN Ok(Zero)
    ELSE IF self.tag = "Zero" THEN Ok(other)
    ELSE IF other.tag = "Zero" THEN Ok(Zero)
    ELSE Err(IncompatibleAmountError(self, other))

merge_KeepsLeftOnError(self, other) ==
    IF self.tag = "Dollars" /\ other.tag = "Dollars" THEN
        IF AddOverflows(self.val, other.val) THEN Panic("Addition overflowed")
        ELSE Ok(Dollars(self.val + other.val))
    ELSE IF self.tag = "Shares" /\ other.tag = "Shares" THEN
        IF AddOverflows(self.val, other.val) THEN Panic("Addition overflowed")
        ELSE Ok(Shares(self.val + other.val))
    ELSE IF self.tag = "Zero" /\ other.tag = "Zero" THEN Ok(Zero)
    ELSE IF self.tag = "Zero" THEN Ok(other)
    ELSE IF other.tag = "Zero" THEN Ok(self)
    ELSE IF self.tag = "Dollars" THEN Ok(self)
    ELSE Err(IncompatibleAmountError(self, other))

(* Amount::merge: the match arms in source order. *)
merge(self, other) ==
    IF self.tag = "Dollars" /\ other.tag = "Dollars" THEN
        IF AddOverflows(self.val, other.val) THEN Panic("Addition overflowed")
        ELSE Ok(Dollars(self.val + other.val))
    ELSE IF self.tag = "Shares" /\ other.tag = "Shares" THEN
        IF AddOverflows(self.val, other.val) THEN Panic("Addition overflowed")
        ELSE Ok(Shares(self.val + other.val))
    ELSE IF self.tag = "Zero" /\ other.tag = "Zero" THEN Ok(Zero)
    ELSE IF self.tag = "Zero" THEN Ok(other)
    ELSE IF other.tag = "Zero" THEN Ok(self)
    ELSE Err(IncompatibleAmountError(self, other))

----------------------------------------------------------------------------
(* Idle values of the parts a specification does not exercise *)

NoArgs == [a |-> Zero, b |-> Zero, c |-> Zero]
NoOut == [ab |-> Pending, ba |-> Pending, bc |-> Pending, left |-> Pending, right |-> Pending]
NoLast == [ticker |-> None, qty |-> None, generated |-> None,
           id |-> None, order_type |-> None, time_in_force |-> None]

MergeIdle == args = NoArgs /\ out = NoOut
BuilderIdle == builder = None /\ built = Pending
TradeIdle == trade = None /\ last = NoLast /\ message = None
WireIdle == wire = None /\ decoded = None

----------------------------------------------------------------------------
(* The merge calls.  Each action is one call of Amount::merge; the grouped *)
(* calls take the Ok value of the inner call as an operand.                *)

MergeAB ==
    /\ out.ab = Pending
    /\ out' = [out EXCEPT !.ab = merge(args.a, args.b)]
    /\ UNCHANGED <<args, builder, built, trade, last, message, wire, decoded>>

MergeBA ==
    /\ out.ba = Pending
    /\ out' = [out EXCEPT !.ba = merge(args.b, args.a)]
    /\ UNCHANGED <<args, builder, built, trade, last, message, wire, decoded>>

MergeBC ==
    /\ out.bc = Pending
    /\ out' = [out EXCEPT !.bc = merge(args.b, args.c)]
    /\ UNCHANGED <<args, builder, built, trade, last, message, wire, decoded>>

(* merge(merge(a, b)?, c) *)
MergeLeft ==
    /\ IsOk(out.ab)
    /\ out.left = Pending
    /\ out' = [out EXCEPT !.left = merge(out.ab.val, args.c)]
    /\ UNCHANGED <<args, builder, built, trade, last, message, wire, decoded>>

(* merge(a, merge(b, c)?) *)
MergeRight ==
    /\ IsOk(out.bc)
    /\ out.right = Pending
    /\ out' = [out EXCEPT !.right = merge(args.a, out.bc.val)]
    /\ UNCHANGED <<args, builder, built, trade, last, message, wire, decoded>>

InitMerge ==
    /\ args \in [a : Amounts, b : Amounts, c : Amounts]
    /\ out = NoOut
    /\ BuilderIdle /\ TradeIdle /\ WireIdle

NextMerge == MergeAB \/ MergeBA \/ MergeBC \/ MergeLeft \/ MergeRight

SpecMerge == InitMerge /\ [][NextMerge]_vars

----------------------------------------------------------------------------
(* Identifier, UpdatePolicy, Option *)

Some(v) == [tag |-> "Some", val |-> v]
IsSome(o) == o.tag = "Some"

Ticker(s) == [tag |-> "Ticker", val |-> s]
All == [tag |-> "All"]
Identifiers == {Ticker(s) : s \in Tickers} \cup {All}

UpdatePolicies == {"Retain", "RetainLong", "RetainShort", "Update"}

----------------------------------------------------------------------------
(* PositionIntentBuilder *)

(* PositionIntent::builder *)
PositionIntent_builder(strategy, identifier, amount) ==
    [strategy |-> strategy,
     sub_strategy |-> None,
     identifier |-> identifier,
     amount |-> amount,
     update_policy |-> "Update",
     decision_price |-> None,
     limit_price |-> None,
     stop_price |-> None,
     before |-> None,
     after |-> None]

sub_strategy(self, s) == [self EXCEPT !.sub_strategy = Some(s)]
decision_price(self, p) == [self EXCEPT !.decision_price = Some(p)]
limit_price(self, p) == [self EXCEPT !.limit_price = Some(p)]
stop_price(self, p) == [self EXCEPT !.stop_price = Some(p)]
before(self, t) == [self EXCEPT !.before = Some(t)]
after(self, t) == [self EXCEPT !.after = Some(t)]
update_policy(self, policy) == [self EXCEPT !.update_policy = policy]

(* The PositionIntent struct literal at the end of build *)
PositionIntentOf(self, uuid, now) ==
    [id |-> uuid,
     strategy |-> self.strategy,
     sub_strategy |-> self.sub_strategy,
     timestamp |-> now,
     identifier |-> self.identifier,
     amount |-> self.amount,
     update_policy |-> self.update_policy,
     decision_price |-> self.decision_price,
     limit_price |-> self.limit_price,
     stop_price |-> self.stop_price,
     before |-> self.before,
     after |-> self.after]

(* Faulty variants of build: no validation, `<=` for `<`, a missing arm. *)
build_SkipsChecks(self, uuid, now) == Ok(PositionIntentOf(self, uuid, now))

build_RejectsEqualBounds(self, uuid, now) ==
    IF IsSome(self.before) /\ IsSome(self.after) /\ self.before.val <= self.after.val
    THEN Err(InvalidBeforeAfter(self.before.val, self.after.val))
    ELSE IF self.identifier = All /\ self.amount.tag = "Dollars" THEN Err(InvalidCombination)
    ELSE IF self.identifier = All /\ self.amount.tag = "Shares" THEN Err(InvalidCombination)
    ELSE Ok(PositionIntentOf(self, uuid, now))

build_RejectsOnlyDollars(self, uuid, now) ==
    IF IsSome(self.before) /\ IsSome(self.after) /\ self.before.val < self.after.val
    THEN Err(InvalidBeforeAfter(self.before.val, self.after.val))
    ELSE IF self.identifier = All /\ self.amount.tag = "Dollars" THEN Err(InvalidCombination)
    ELSE Ok(PositionIntentOf(self, uuid, now))

(* PositionIntentBuilder::build; uuid is what Uuid::new_v4() returns and now *)
(* what Utc::now() returns.                                                  *)
build(self, uuid, now) ==
    IF IsSome(self.before) /\ IsSome(self.after) /\ self.before.val < self.after.val
    THEN Err(InvalidBeforeAfter(self.before.val, self.after.val))
    ELSE IF self.identifier = All /\ self.amount.tag = "Dollars" THEN Err(InvalidCombination)
    ELSE IF self.identifier = All /\ self.amount.tag = "Shares" THEN Err(InvalidCombination)
    ELSE Ok(PositionIntentOf(self, uuid, now))

Builder ==
    /\ builder = None
    /\ built = Pending
    /\ \E s \in Strategies, i \in Identifiers, a \in Amounts :
          builder' = PositionIntent_builder(s, i, a)
    /\ UNCHANGED <<args, out, built, trade, last, message, wire, decoded>>

SetSubStrategy ==
    /\ builder # None
    /\ \E s \in SubStrategies : builder' = sub_strategy(builder, s)
    /\ UNCHANGED <<args, out, built, trade, last, message, wire, decoded>>

SetDecisionPrice ==
    /\ builder # None
    /\ \E p \in Prices : builder' = decision_price(builder, p)
    /\ UNCHANGED <<args, out, built, trade, last, message, wire, decoded>>

SetLimitPrice ==
    /\ builder # None
    /\ \E p \in Prices : builder' = limit_price(builder, p)
    /\ UNCHANGED <<args, out, built, trade, last, message, wire, decoded>>

SetStopPrice ==
    /\ builder # None
    /\ \E p \in Prices : builder' = stop_price(builder, p)
    /\ UNCHANGED <<args, out, built, trade, last, message, wire, decoded>>

SetBefore ==
    /\ builder # None
    /\ \E t \in Times : builder' = before(builder, t)
    /\ UNCHANGED <<args, out, built, trade, last, message, wire, decoded>>

SetAfter ==
    /\ builder # None
    /\ \E t \in Times : builder' = after(builder, t)
    /\ UNCHANGED <<args, out, built, trade, last, message, wire, decoded>>

SetUpdatePolicy ==
    /\ builder # None
    /\ \E p \in UpdatePolicies : builder' = update_policy(builder, p)
    /\ UNCHANGED <<args, out, built, trade, last, message, wire, decoded>>

(* build consumes the builder by value *)
Build ==
    /\ builder # None
    /\ \E u \in Uuids, now \in Times : built' = build(builder, u, now)
    /\ builder' = None
    /\ UNCHANGED <<args, out, trade, last, message, wire, decoded>>

InitBuilder == MergeIdle /\ BuilderIdle /\ TradeIdle /\ WireIdle

NextBuilder ==
    \/ Builder
    \/ SetSubStrategy
    \/ SetDecisionPrice
    \/ SetLimitPrice
    \/ SetStopPrice
    \/ SetBefore
    \/ SetAfter
    \/ SetUpdatePolicy
    \/ Build

SpecBuilder == InitBuilder /\ [][NextBuilder]_vars

----------------------------------------------------------------------------
(* OrderType, TimeInForce, TradeIntent *)

Market == [tag |-> "Market"]
Limit(lp) == [tag |-> "Limit", limit_price |-> lp]
Stop(sp) == [tag |-> "Stop", stop_price |-> sp]
StopLimit(sp, lp) == [tag |-> "StopLimit", stop_price |-> sp, limit_price |-> lp]

OrderTypes ==
    {Market} \cup {Limit(p) : p \in OrderPrices} \cup {Stop(p) : p \in OrderPrices}
    \cup {StopLimit(p, q) : p \in OrderPrices, q \in OrderPrices}

TimeInForces ==
    {"GoodTilCanceled", "Day", "ImmediateOrCancel", "FillOrKill", "Open", "Close"}

(* TradeIntent::new; uuid is what Uuid::new_v4() returns *)
new(ticker, qty, uuid) ==
    [id |-> uuid,
     ticker |-> ticker,
     qty |-> qty,
     order_type |-> Market,
     time_in_force |-> "Day"]

id(self, uuid) == [self EXCEPT !.id = uuid]

(* Faulty variant: the override rebuilds the intent with the default Day *)
order_type_ResetsTimeInForce(self, ot) ==
    [self EXCEPT !.order_type = ot, !.time_in_force = "Day"]

order_type(self, ot) == [self EXCEPT !.order_type = ot]

time_in_force(self, tif) == [self EXCEPT !.time_in_force = tif]

New ==
    /\ trade = None
    /\ \E t \in Tickers, q \in Qtys, u \in Uuids :
          /\ trade' = new(t, q, u)
          /\ last' = [ticker |-> t, qty |-> q, generated |-> u,
                      id |-> None, order_type |-> None, time_in_force |-> None]
    /\ UNCHANGED <<args, out, builder, built, message, wire, decoded>>

SetId ==
    /\ trade # None
    /\ \E u \in Uuids :
          /\ trade' = id(trade, u)
          /\ last' = [last EXCEPT !.id = Some(u)]
    /\ UNCHANGED <<args, out, builder, built, message, wire, decoded>>

SetOrderType ==
    /\ trade # None
    /\ \E ot \in OrderTypes :
          /\ trade' = order_type(trade, ot)
          /\ last' = [last EXCEPT !.order_type = Some(ot)]
    /\ UNCHANGED <<args, out, builder, built, message, wire, decoded>>

SetTimeInForce ==
    /\ trade # None
    /\ \E tif \in TimeInForces :
          /\ trade' = time_in_force(trade, tif)
          /\ last' = [last EXCEPT !.time_in_force = Some(tif)]
    /\ UNCHANGED <<args, out, builder, built, message, wire, decoded>>

InitTrade == MergeIdle /\ BuilderIdle /\ TradeIdle /\ WireIdle

NextTrade == New \/ SetId \/ SetOrderType \/ SetTimeInForce

SpecTrade == InitTrade /\ [][NextTrade]_vars

----------------------------------------------------------------------------
(* TradeMessage *)

MessageNew(intent) == [tag |-> "New", intent |-> intent]
MessageCancel(uuid) == [tag |-> "Cancel", id |-> uuid]

----------------------------------------------------------------------------
(* The JSON wire encoding (serde derive + serde_json).  A JSON value is a   *)
(* string, a number or an object; an object is a function from its keys.    *)

JStr(s) == [kind |-> "string", s |-> s]
JNum(n) == [kind |-> "number", n |-> n]
JObj(f) == [kind |-> "object", fields |-> f]
EmptyFields == <<>>

DecodeError == Err([kind |-> "DecodeError"])

(* Scalars: Decimal and Uuid are written as strings, DateTime<Utc> as an    *)
(* RFC 3339 string, isize as a number.                                      *)
AllDecimals == Decimals \cup Prices \cup OrderPrices

DecimalToJson(d) == JStr(ToString(d))
DecimalFromJson(j) ==
    IF j.kind = "string" /\ \E d \in AllDecimals : ToString(d) = j.s
    THEN Ok(CHOOSE d \in AllDecimals : ToString(d) = j.s)
    ELSE DecodeError

UuidToJson(u) == JStr("uuid-" \o ToString(u))
UuidFromJson(j) ==
    IF j.kind = "string" /\ \E u \in Uuids : "uuid-" \o ToString(u) = j.s
    THEN Ok(CHOOSE u \in Uuids : "uuid-" \o ToString(u) = j.s)
    ELSE DecodeError

DateTimeToJson(t) == JStr(ToString(t) \o "Z")
DateTimeFromJson(j) ==
    IF j.kind = "string" /\ \E t \in Times : ToString(t) \o "Z" = j.s
    THEN Ok(CHOOSE t \in Times : ToString(t) \o "Z" = j.s)
    ELSE DecodeError

StringFromJson(j) == IF j.kind = "string" THEN Ok(j.s) ELSE DecodeError
IntFromJson(j) == IF j.kind = "number" THEN Ok(j.n) ELSE DecodeError

(* #[serde(rename_all = "snake_case")] on UpdatePolicy *)
UpdatePolicyName(p) ==
    CASE p = "Retain" -> "retain"
      [] p = "RetainLong" -> "retain_long"
      [] p = "RetainShort" -> "retain_short"
      [] p = "Update" -> "update"

UpdatePolicyToJson(p) == JStr(UpdatePolicyName(p))
UpdatePolicyFromJson(j) ==
    IF j.kind = "string" /\ \E p \in UpdatePolicies : UpdatePolicyName(p) = j.s
    THEN Ok(CHOOSE p \in UpdatePolicies : UpdatePolicyName(p) = j.s)
    ELSE DecodeError

(* #[serde(rename = ...)] on each TimeInForce variant *)
TimeInForceCode(t) ==
    CASE t = "GoodTilCanceled" -> "gtc"
      [] t = "Day" -> "day"
      [] t = "ImmediateOrCancel" -> "ioc"
      [] t = "FillOrKill" -> "fok"
      [] t = "Open" -> "opg"
      [] t = "Close" -> "cls"

TimeInForceToJson(t) == JStr(TimeInForceCode(t))
TimeInForceFromJson(j) ==
    IF j.kind = "string" /\ \E t \in TimeInForces : TimeInForceCode(t) = j.s
    THEN Ok(CHOOSE t \in TimeInForces : TimeInForceCode(t) = j.s)
    ELSE DecodeError

(* Amount: externally tagged, snake_case *)
AmountToJson(a) ==
    CASE a.tag = "Dollars" -> JObj("dollars" :> DecimalToJson(a.val))
      [] a.tag = "Shares" -> JObj("shares" :> DecimalToJson(a.val))
      [] a.tag = "Zero" -> JStr("zero")

AmountFromJson(j) ==
    IF j.kind = "string" THEN (IF j.s = "zero" THEN Ok(Zero) ELSE DecodeError)
    ELSE IF j.kind # "object" THEN DecodeError
    ELSE IF DOMAIN j.fields = {"dollars"} /\ IsOk(DecimalFromJson(j.fields["dollars"]))
         THEN Ok(Dollars(DecimalFromJson(j.fields["dollars"]).val))
    ELSE IF DOMAIN j.fields = {"shares"} /\ IsOk(DecimalFromJson(j.fields["shares"]))
         THEN Ok(Shares(DecimalFromJson(j.fields["shares"]).val))
    ELSE DecodeError

(* Identifier: externally tagged, lowercase *)
IdentifierToJson(i) ==
    CASE i.tag = "Ticker" -> JObj("ticker" :> JStr(i.val))
      [] i.tag = "All" -> JStr("all")

IdentifierFromJson(j) ==
    IF j.kind = "string" THEN (IF j.s = "all" THEN Ok(All) ELSE DecodeError)
    ELSE IF j.kind # "object" THEN DecodeError
    ELSE IF DOMAIN j.fields = {"ticker"} /\ IsOk(StringFromJson(j.fields["ticker"]))
         THEN Ok(Ticker(j.fields["ticker"].s))
    ELSE DecodeError

(* Option fields under #[serde(skip_serializing_if = "Option::is_none")]:   *)
(* None writes no key; a missing key reads as None.                         *)
OptStringField(key, o) == IF IsSome(o) THEN key :> JStr(o.val) ELSE EmptyFields
OptDecimalField(key, o) == IF IsSome(o) THEN key :> DecimalToJson(o.val) ELSE EmptyFields
OptDateTimeField(key, o) == IF IsSome(o) THEN key :> DateTimeToJson(o.val) ELSE EmptyFields

SomeOf(r) == IF IsOk(r) THEN Ok(Some(r.val)) ELSE r
OptStringFrom(f, key) == IF key \in DOMAIN f THEN SomeOf(StringFromJson(f[key])) ELSE Ok(None)
OptDecimalFrom(f, key) == IF key \in DOMAIN f THEN SomeOf(DecimalFromJson(f[key])) ELSE Ok(None)
OptDateTimeFrom(f, key) == IF key \in DOMAIN f THEN SomeOf(DateTimeFromJson(f[key])) ELSE Ok(None)

(* #[derive(Serialize)] on PositionIntent *)
PositionIntentToJson(p) ==
    JObj(("id" :> UuidToJson(p.id))
         @@ ("strategy" :> JStr(p.strategy))
         @@ OptStringField("sub_strategy", p.sub_strategy)
         @@ ("timestamp" :> DateTimeToJson(p.timestamp))
         @@ ("identifier" :> IdentifierToJson(p.identifier))
         @@ ("amount" :> AmountToJson(p.amount))
         @@ ("update_policy" :> UpdatePolicyToJson(p.update_policy))
         @@ OptDecimalField("decision_price", p.decision_price)
         @@ OptDecimalField("limit_price", p.limit_price)
         @@ OptDecimalField("stop_price", p.stop_price)
         @@ OptDateTimeField("before", p.before)
         @@ OptDateTimeField("after", p.after))

(* #[derive(Deserialize)] on PositionIntent *)
PositionIntentFromJson(j) ==
    IF j.kind # "object" THEN DecodeError
    ELSE IF ~({"id", "strategy", "timestamp", "identifier", "amount", "update_policy"}
                \subseteq DOMAIN j.fields) THEN DecodeError
    ELSE LET f == j.fields
             r == [id |-> UuidFromJson(f["id"]),
                   strategy |-> StringFromJson(f["strategy"]),
                   sub_strategy |-> OptStringFrom(f, "sub_strategy"),
                   timestamp |-> DateTimeFromJson(f["timestamp"]),
                   identifier |-> IdentifierFromJson(f["identifier"]),
                   amount |-> AmountFromJson(f["amount"]),
                   update_policy |-> UpdatePolicyFromJson(f["update_policy"]),
                   decision_price |-> OptDecimalFrom(f, "decision_price"),
                   limit_price |-> OptDecimalFrom(f, "limit_price"),
                   stop_price |-> OptDecimalFrom(f, "stop_price"),
                   before |-> OptDateTimeFrom(f, "before"),
                   after |-> OptDateTimeFrom(f, "after")]
         IN  IF \A k \in DOMAIN r : IsOk(r[k])
             THEN Ok([k \in DOMAIN r |-> r[k].val])
             ELSE DecodeError

(* OrderType: internally tagged by "order_type", snake_case; these are its  *)
(* keys, the tag among them.                                                *)
OrderTypeFields(ot) ==
    CASE ot.tag = "Market" -> "order_type" :> JStr("market")
      [] ot.tag = "Limit" ->
            ("order_type" :> JStr("limit"))
            @@ ("limit_price" :> DecimalToJson(ot.limit_price))
      [] ot.tag = "Stop" ->
            ("order_type" :> JStr("stop"))
            @@ ("stop_price" :> DecimalToJson(ot.stop_price))
      [] ot.tag = "StopLimit" ->
            ("order_type" :> JStr("stop_limit"))
            @@ ("stop_price" :> DecimalToJson(ot.stop_price))
            @@ ("limit_price" :> DecimalToJson(ot.limit_price))

HasDecimal(f, key) == key \in DOMAIN f /\ IsOk(DecimalFromJson(f[key]))

OrderTypeFromFields(f) ==
    IF ~("order_type" \in DOMAIN f /\ f["order_type"].kind = "string") THEN DecodeError
    ELSE LET tag == f["order_type"].s
         IN  IF tag = "market" THEN Ok(Market)
             ELSE IF tag = "limit" /\ HasDecimal(f, "limit_price")
                  THEN Ok(Limit(DecimalFromJson(f["limit_price"]).val))
             ELSE IF tag = "stop" /\ HasDecimal(f, "stop_price")
                  THEN Ok(Stop(DecimalFromJson(f["stop_price"]).val))
             ELSE IF tag = "stop_limit" /\ HasDecimal(f, "stop_price")
                                        /\ HasDecimal(f, "limit_price")
                  THEN Ok(StopLimit(DecimalFromJson(f["stop_price"]).val,
                                    DecimalFromJson(f["limit_price"]).val))
             ELSE DecodeError

(* Faulty variant: order_type written as a nested object, not flattened *)
TradeIntentToJson_Nested(t) ==
    JObj(("id" :> UuidToJson(t.id))
         @@ ("ticker" :> JStr(t.ticker))
         @@ ("qty" :> JNum(t.qty))
         @@ ("order_type" :> JObj(OrderTypeFields(t.order_type)))
         @@ ("time_in_force" :> TimeInForceToJson(t.time_in_force)))

(* #[derive(Serialize)] on TradeIntent, order_type under #[serde(flatten)] *)
TradeIntentToJson(t) ==
    JObj(("id" :> UuidToJson(t.id))
         @@ ("ticker" :> JStr(t.ticker))
         @@ ("qty" :> JNum(t.qty))
         @@ OrderTypeFields(t.order_type)
         @@ ("time_in_force" :> TimeInForceToJson(t.time_in_force)))

(* #[derive(Deserialize)] on TradeIntent *)
TradeIntentFromJson(j) ==
    IF j.kind # "object" THEN DecodeError
    ELSE IF ~({"id", "ticker", "qty", "time_in_force"} \subseteq DOMAIN j.fields)
         THEN DecodeError
    ELSE LET f == j.fields
             r == [id |-> UuidFromJson(f["id"]),
                   ticker |-> StringFromJson(f["ticker"]),
                   qty |-> IntFromJson(f["qty"]),
                   order_type |-> OrderTypeFromFields(f),
                   time_in_force |-> TimeInForceFromJson(f["time_in_force"])]
         IN  IF \A k \in DOMAIN r : IsOk(r[k])
             THEN Ok([k \in DOMAIN r |-> r[k].val])
             ELSE DecodeError

(* TradeMessage: internally tagged by "action", snake_case *)
TradeMessageToJson(m) ==
    CASE m.tag = "New" ->
            JObj(("action" :> JStr("new")) @@ ("intent" :> TradeIntentToJson(m.intent)))
      [] m.tag = "Cancel" ->
            JObj(("action" :> JStr("cancel")) @@ ("id" :> UuidToJson(m.id)))

TradeMessageFromJson(j) ==
    IF j.kind # "object" THEN DecodeError
    ELSE IF ~("action" \in DOMAIN j.fields /\ j.fields["action"].kind = "string")
         THEN DecodeError
    ELSE LET f == j.fields
             tag == f["action"].s
         IN  IF tag = "new" /\ "intent" \in DOMAIN f /\ IsOk(TradeIntentFromJson(f["intent"]))
             THEN Ok(MessageNew(TradeIntentFromJson(f["intent"]).val))
             ELSE IF tag = "cancel" /\ "id" \in DOMAIN f /\ IsOk(UuidFromJson(f["id"]))
             THEN Ok(MessageCancel(UuidFromJson(f["id"]).val))
             ELSE DecodeError

----------------------------------------------------------------------------
(* Wrapping and the round trip, as the tests do it: to_string of a value,   *)
(* then from_str at the value's type.  `wire.of` is the value encoded.      *)

WrapNew ==
    /\ trade # None
    /\ message = None
    /\ message' = MessageNew(trade)
    /\ UNCHANGED <<args, out, builder, built, trade, last, wire, decoded>>

WrapCancel ==
    /\ trade # None
    /\ message = None
    /\ message' = MessageCancel(trade.id)
    /\ UNCHANGED <<args, out, builder, built, trade, last, wire, decoded>>

SerializePositionIntent ==
    /\ IsOk(built)
    /\ wire = None
    /\ wire' = [ty |-> "PositionIntent", of |-> built.val,
                json |-> PositionIntentToJson(built.val)]
    /\ UNCHANGED <<args, out, builder, built, trade, last, message, decoded>>

SerializeTradeIntent ==
    /\ trade # None
    /\ wire = None
    /\ wire' = [ty |-> "TradeIntent", of |-> trade, json |-> TradeIntentToJson(trade)]
    /\ UNCHANGED <<args, out, builder, built, trade, last, message, decoded>>

SerializeTradeMessage ==
    /\ message # None
    /\ wire = None
    /\ wire' = [ty |-> "TradeMessage", of |-> message, json |-> TradeMessageToJson(message)]
    /\ UNCHANGED <<args, out, builder, built, trade, last, message, decoded>>

DeserializePositionIntent ==
    /\ wire # None
    /\ wire.ty = "PositionIntent"
    /\ decoded = None
    /\ decoded' = PositionIntentFromJson(wire.json)
    /\ UNCHANGED <<args, out, builder, built, trade, last, message, wire>>

DeserializeTradeIntent ==
    /\ wire # None
    /\ wire.ty = "TradeIntent"
    /\ decoded = None
    /\ decoded' = TradeIntentFromJson(wire.json)
    /\ UNCHANGED <<args, out, builder, built, trade, last, message, wire>>

DeserializeTradeMessage ==
    /\ wire # None
    /\ wire.ty = "TradeMessage"
    /\ decoded = None
    /\ decoded' = TradeMessageFromJson(wire.json)
    /\ UNCHANGED <<args, out, builder, built, trade, last, message, wire>>

InitWire == MergeIdle /\ BuilderIdle /\ TradeIdle /\ WireIdle

(* One value is built and sent per run: a position intent or a trade        *)
(* intent / message, and a value is not changed once it is on the wire.     *)
NextWire ==
    \/ TradeIdle /\ Builder
    \/ SetSubStrategy
    \/ SetDecisionPrice
    \/ SetLimitPrice
    \/ SetStopPrice
    \/ SetBefore
    \/ SetAfter
    \/ SetUpdatePolicy
    \/ Build
    \/ BuilderIdle /\ New
    \/ WireIdle /\ message = None /\ SetId
    \/ WireIdle /\ message = None /\ SetOrderType
    \/ WireIdle /\ message = None /\ SetTimeInForce
    \/ WireIdle /\ WrapNew
    \/ WireIdle /\ WrapCancel
    \/ SerializePositionIntent
    \/ SerializeTradeIntent
    \/ SerializeTradeMessage
    \/ DeserializePositionIntent
    \/ DeserializeTradeIntent
    \/ DeserializeTradeMessage

SpecWire == InitWire /\ [][NextWire]_vars

----------------------------------------------------------------------------
(* Properties *)

WindowOk(p) == ~(IsSome(p.before) /\ IsSome(p.after) /\ p.before.val < p.after.val)
CombinationOk(p) == p.identifier = All => p.amount = Zero

C2_BeforeAfterCheck ==
    [][(builder # None /\ IsDone(built')) =>
          IF IsSome(builder.before) /\ IsSome(builder.after)
             /\ builder.before.val < builder.after.val
          THEN built' = Err(InvalidBeforeAfter(builder.before.val, builder.after.val))
          ELSE /\ ~(IsErr(built') /\ built'.err.kind = "InvalidBeforeAfter")
               /\ (CombinationOk(builder) => IsOk(built'))]_vars

C2_Witness ==
    /\ built = Err(InvalidBeforeAfter(0, 1))
    /\ builder = None

C4_NeverSumsAcrossUnits ==
    /\ (IsDone(out.ab) /\ {args.a.tag, args.b.tag} = {"Dollars", "Shares"})
          => out.ab = Err(IncompatibleAmountError(args.a, args.b))
    /\ (IsDone(out.ba) /\ {args.a.tag, args.b.tag} = {"Dollars", "Shares"})
          => out.ba = Err(IncompatibleAmountError(args.b, args.a))

C4_Witness ==
    /\ args.a = Dollars(1) /\ args.b = Shares(0)
    /\ out.ab = Err(IncompatibleAmountError(Dollars(1), Shares(0)))
    /\ out.ba = Err(IncompatibleAmountError(Shares(0), Dollars(1)))

\* C5: merge of two amounts of the same unit always succeeds and keeps the
\* unit: Dollars(x), Dollars(y) gives Ok(Dollars(x+y)) and Shares(x),
\* Shares(y) gives Ok(Shares(x+y)), for all x and y.
C5_SameUnitAlwaysSums ==
    /\ (IsDone(out.ab) /\ args.a.tag = "Dollars" /\ args.b.tag = "Dollars")
          => out.ab = Ok(Dollars(args.a.val + args.b.val))
    /\ (IsDone(out.ab) /\ args.a.tag = "Shares" /\ args.b.tag = "Shares")
          => out.ab = Ok(Shares(args.a.val + args.b.val))

\* C6: Zero is a left and right identity of merge: merge(Zero, a) = Ok(a) and
\* merge(a, Zero) = Ok(a) for every Amount a, never an error.
C6_ZeroIsIdentity ==
    /\ (IsDone(out.ab) /\ args.a = Zero) => out.ab = Ok(args.b)
    /\ (IsDone(out.ab) /\ args.b = Zero) => out.ab = Ok(args.a)
    /\ (IsDone(out.ba) /\ args.b = Zero) => out.ba = Ok(args.a)
    /\ (IsDone(out.ba) /\ args.a = Zero) => out.ba = Ok(args.b)

C6_Witness ==
    /\ args.a = Zero /\ args.b = Shares(1)
    /\ out.ab = Ok(Shares(1))
    /\ out.ba = Ok(Shares(1))

\* C7: merge is commutative on compatible pairs: when merge(a, b) succeeds so
\* does merge(b, a), with an equal result, and merge(a, b) fails exactly when
\* merge(b, a) fails.
C7_Commutative ==
    (IsDone(out.ab) /\ IsDone(out.ba)) =>
        /\ IsOk(out.ab) => (IsOk(out.ba) /\ out.ab.val = out.ba.val)
        /\ IsErr(out.ab) <=> IsErr(out.ba)
        /\ IsPanic(out.ab) <=> IsPanic(out.ba)

C7_Witness ==
    /\ args.a = Dollars(1) /\ args.b = Dollars(0 - 2)
    /\ out.ab = Ok(Dollars(0 - 1))
    /\ out.ba = Ok(Dollars(0 - 1))

OptionalKeys == {"sub_strategy", "decision_price", "limit_price", "stop_price", "before", "after"}

\* C8: decoding the encoding of a PositionIntent produced by build, of a
\* TradeIntent or of a TradeMessage yields a value equal to the original, and
\* an absent optional field of a PositionIntent has no key in the encoding.
C8_WireRoundTrip ==
    /\ decoded # None => decoded = Ok(wire.of)
    /\ (wire # None /\ wire.ty = "PositionIntent") =>
          \A k \in OptionalKeys : k \in DOMAIN wire.json.fields <=> IsSome(wire.of[k])

C8_Witness ==
    /\ wire # None /\ wire.ty = "PositionIntent"
    /\ decoded = Ok(built.val)
    /\ IsSome(built.val.sub_strategy)
    /\ IsSome(built.val.decision_price)
    /\ built.val.limit_price = None
    /\ IsSome(built.val.before)
    /\ built.val.after = None
    /\ built.val.amount = Shares(1)

\* C9: new(ticker, qty) gives the ticker and qty as given, Market and Day;
\* after any overrides, id, order_type and time_in_force each hold the last
\* value given to them (or the generated id / the default), ticker and qty are
\* as given to new, and every call yields a TradeIntent.
C9_TradeIntentOverrides ==
    trade # None =>
        /\ trade.ticker = last.ticker
        /\ trade.qty = last.qty
        /\ trade.id = (IF IsSome(last.id) THEN last.id.val ELSE last.generated)
        /\ trade.order_type =
              (IF IsSome(last.order_type) THEN last.order_type.val ELSE Market)
        /\ trade.time_in_force =
              (IF IsSome(last.time_in_force) THEN last.time_in_force.val ELSE "Day")
        /\ trade \in [id : Uuids, ticker : Tickers, qty : Qtys,
                      order_type : OrderTypes, time_in_force : TimeInForces]

C9_Witness ==
    /\ trade # None
    /\ last.id = None
    /\ trade.time_in_force = "ImmediateOrCancel"
    /\ trade.order_type = StopLimit(1, 2)
    /\ trade.qty = 0 - 1

LeftOutcome == IF IsDone(out.ab) /\ ~IsOk(out.ab) THEN out.ab ELSE out.left
RightOutcome == IF IsDone(out.bc) /\ ~IsOk(out.bc) THEN out.bc ELSE out.right

\* C10: merge(merge(a,b),c) and merge(a,merge(b,c)), an inner failure being
\* the overall failure, either both succeed with equal results or both fail
\* (the claim's statement about folds is a consequence of this one).
C10_AssociativeUpToFailure ==
    (IsDone(LeftOutcome) /\ IsDone(RightOutcome)) =>
        /\ \/ IsOk(LeftOutcome) /\ IsOk(RightOutcome) /\ LeftOutcome.val = RightOutcome.val
           \/ ~IsOk(LeftOutcome) /\ ~IsOk(RightOutcome)

====
